---- MODULE Spec2Model ----
(***************************************************************************)
(* Model of the page classification pipeline:                              *)
(*   tools/crawl_tool.py   crawl_tool      (sitemaps + bounded link crawl) *)
(*   agent/mcp_agent.py    MCPAgent.run, process_during_crawl,             *)
(*                         _process_url, _process_url_with_html            *)
(*   tools/storage_tool.py storage_tool    (line-delimited append)         *)
(*   tools/crawl_tool.py   normalize_url   (on the text of a url)           *)
(*   tools/validate_tool.py validate_tool, apply_validation_fixes          *)
(*   tools/classify_llm_tool.py classify_llm_tool (answer handling)        *)
(*   tools/storage_tool.py init_storage, storage_tool, storage_tool_sqlite *)
(*   tools/render_tool.py  render_tool     (what it returns)               *)
(* The network, the renderer, the extractor, the classifier and the file   *)
(* system are the environment: each call's outcome is chosen               *)
(* nondeterministically at the moment the call is made.                    *)
(* Spec is a run of the pipeline; NormalizeSpec and ValidateSpec apply      *)
(* normalize_url and validate_tool to every argument of a bounded set;     *)
(* ClassifySpec takes every model answer of a bounded set through          *)
(* classify, validate, fix and store; StoreSpec is the Store from          *)
(* init_storage through the appends of one run; RenderSpec is the render   *)
(* step of _process_url_with_html for every page and policy of a bounded   *)
(* set; PassSpec is one pass of a page through the stages of _process_url  *)
(* and _process_url_with_html.  The Fair... specifications add the         *)
(* scheduling of sequential code: a step that can be taken is taken.       *)
(***************************************************************************)
EXTENDS Integers, Sequences, FiniteSets, TLC

\* ---------------------------------------------------------------- bounds
MaxPagesBound == 2      \* crawl_limits.max_pages ranges over 1..MaxPagesBound
MaxDepthBound == 1      \* crawl_limits.max_depth ranges over 0..MaxDepthBound
MaxPath == 2            \* pages of the crawled host are /0 .. /MaxPath
MaxLinks == 2           \* anchors on one fetched page
MaxLocs == 2            \* <loc> entries in one sitemap document

None == "None"

\* ------------------------------------------------------------------ URLs
\* A URL is host + path (+ fragment flag).  Host "h" is the crawled site,
\* host "x" a foreign site.
Url(h, p, f) == [host |-> h, path |-> p, frag |-> f]

\* The urls the environment can put into sitemaps and anchors: the pages of
\* the site (/0 is the seed), one of them also with a fragment, and a
\* foreign page.
RawUrls ==
    {Url("h", p, FALSE) : p \in 0..MaxPath}
    \cup {Url("h", 1, TRUE), Url("x", 0, FALSE)}

\* The hrefs the environment puts into anchors.  An anchor back to the seed
\* is dropped at crawl_tool.py 185 like the anchors line 181 skips (the seed
\* is in seen from line 66 on), so the pool holds the other urls.
LinkUrls == RawUrls \ {Url("h", 0, FALSE)}

\* crawl_tool.py normalize_url: the fragment is dropped, scheme://netloc/path
\* is kept.
normalize_url(u) == [u EXCEPT !.frag = FALSE]

\* urlparse(u).netloc
netloc(u) == u.host

\* f"{scheme}://{netloc}/sitemap.xml"; sitemap documents are the negative
\* paths: -1 is /sitemap.xml, -2 a further sitemap of the site.
sitemap_of(u) == Url(netloc(u), -1, FALSE)

SitemapUrls == {Url("h", -1, FALSE), Url("h", -2, FALSE)}

\* every sitemap url a crawl can come to: /sitemap.xml of each seed host
\* and what sitemap indexes reference
SitemapPool == SitemapUrls \cup {Url("x", -1, FALSE)}

\* the absent url (Python None where a url is expected)
NoUrl == Url("", 0, FALSE)

\* ------------------------------------------------------- URLs as strings
\* normalize_url on the text of a url.  A string is a sequence of
\* characters; the characters are two scheme letters, two host letters, two
\* further letters, and the delimiters urlparse looks for.
MaxUrlLen == 3          \* every string of at most MaxUrlLen characters is an input

UrlLetters == {"s", "S", "h", "H", "a", "b"}

UrlChars == UrlLetters \cup {":", "/", "?", "#", "&"}

\* str.lower() on one character
lower(c) ==
    CASE c = "S" -> "s"
      [] c = "H" -> "h"
      [] OTHER -> c

lower_str(str) == [i \in 1..Len(str) |-> lower(str[i])]

\* str.find(c, start) with 1-based positions, 0 when c does not occur
RECURSIVE find(_, _, _)
find(str, c, start) ==
    IF start > Len(str) THEN 0
    ELSE IF str[start] = c THEN start
    ELSE find(str, c, start + 1)

\* str.rstrip(c)
RECURSIVE rstrip(_, _)
rstrip(str, c) ==
    IF str # <<>> /\ str[Len(str)] = c THEN rstrip(SubSeq(str, 1, Len(str) - 1), c)
    ELSE str

\* urllib.parse._splitnetloc(url, 2): the position of the first of / ? #
\* after the leading //, or one past the end
splitnetloc_delim(url) ==
    LET ds == {find(url, c, 3) : c \in {"/", "?", "#"}} \ {0}
    IN IF ds = {} THEN Len(url) + 1
       ELSE CHOOSE d \in ds : \A e \in ds : d <= e

\* urllib.parse.urlparse as normalize_url uses it (crawl_tool.py 21): the
\* scheme is what precedes the first ":" if that is letters only, and it is
\* lower-cased; the netloc is what follows a leading "//" up to the first
\* of / ? #, as written; then the fragment is cut at the first "#" and the
\* query at the first "?".
urlparse(url) ==
    LET i == find(url, ":", 1)
        has_scheme == i > 1 /\ \A k \in 1..(i - 1) : url[k] \in UrlLetters
        scheme == IF has_scheme THEN lower_str(SubSeq(url, 1, i - 1)) ELSE <<>>
        u1 == IF has_scheme THEN SubSeq(url, i + 1, Len(url)) ELSE url
        has_netloc == Len(u1) >= 2 /\ u1[1] = "/" /\ u1[2] = "/"
        delim == splitnetloc_delim(u1)
        net == IF has_netloc THEN SubSeq(u1, 3, delim - 1) ELSE <<>>
        u2 == IF has_netloc THEN SubSeq(u1, delim, Len(u1)) ELSE u1
        h == find(u2, "#", 1)
        fragment == IF h > 0 THEN SubSeq(u2, h + 1, Len(u2)) ELSE <<>>
        u3 == IF h > 0 THEN SubSeq(u2, 1, h - 1) ELSE u2
        q == find(u3, "?", 1)
        query == IF q > 0 THEN SubSeq(u3, q + 1, Len(u3)) ELSE <<>>
        path == IF q > 0 THEN SubSeq(u3, 1, q - 1) ELSE u3
    IN [scheme |-> scheme, netloc |-> net, path |-> path, query |-> query,
        fragment |-> fragment]

\* crawl_tool.py 17-32, called without a base (64, 110) or with a url that
\* has a netloc (184), so that the base is not consulted.
normalize_url_str(url) ==
    LET parsed == urlparse(url)
        result == parsed.scheme \o <<":", "/", "/">> \o parsed.netloc \o parsed.path
                  \o (IF parsed.query # <<>> THEN <<"?">> \o parsed.query ELSE <<>>)
        stripped == rstrip(result, "/")
    IN IF stripped # <<>> THEN stripped ELSE result \o <<"/">>

\* ---------------------------------------------------------- ProcessingState
ProcessingState ==
    {"DISCOVERED", "FETCHED", "RENDERED", "EXTRACTED", "CLASSIFIED",
     "VALIDATED", "STORED", "FAILED", "SKIPPED"}

TERMINAL_STATES == {"STORED", "FAILED", "SKIPPED"}

URLRecord(u, from, d) ==
    [url |-> u, discovered_from |-> from, depth |-> d, state |-> "DISCOVERED"]

\* ------------------------------------------------------------ sequences
SeqsUpTo(S, n) == UNION {[1..k -> S] : k \in 0..n}

Range(s) == {s[i] : i \in 1..Len(s)}

IsPrefix(s, t) == Len(s) <= Len(t) /\ \A i \in 1..Len(s) : s[i] = t[i]

NoDup(s) == \A i, j \in 1..Len(s) : s[i] = s[j] => i = j

Min(a, b) == IF a <= b THEN a ELSE b

\* ------------------------------------------------------------ environment
MaxRefs == 2            \* <sitemap> references in one sitemap index

\* Config: start_urls, allowed_domains, crawl_limits (config/loader.py:
\* max_depth >= 0, max_pages >= 1).
StartUrlLists ==
    { <<>>,
      <<Url("h", 0, FALSE), Url("h", 0, TRUE)>>,
      <<Url("h", 0, FALSE), Url("x", 0, FALSE)>> }

Configs ==
    [start_urls : StartUrlLists,
     allowed_domains : {{}, {"h"}},
     max_pages : 1..MaxPagesBound,
     max_depth : 0..MaxDepthBound]

\* Answers of client.get(sitemap_url): anything that is not a 200 XML
\* document ("fail"), an exception of the client or of the parsing
\* ("raise"), a sitemap index, or a leaf sitemap.  An exception in the middle
\* of a document leaves what a shorter document leaves.
SitemapResponses ==
    {[kind |-> k, refs |-> <<>>, locs |-> <<>>] : k \in {"fail", "raise"}}
    \cup {[kind |-> "index", refs |-> r, locs |-> <<>>] : r \in SeqsUpTo(SitemapUrls, MaxRefs)}
    \cup {[kind |-> "leaf", refs |-> <<>>, locs |-> l] : l \in SeqsUpTo(RawUrls, MaxLocs)}

\* Answers of client.get(url) during link traversal: an exception, a
\* non-200 status, or a 200 page (HTML or not) with its anchors.
PageResponses ==
    {[ok |-> FALSE, raised |-> x, html |-> FALSE, links |-> <<>>] : x \in BOOLEAN}
    \cup {[ok |-> TRUE, raised |-> FALSE, html |-> b, links |-> l] :
            b \in BOOLEAN, l \in SeqsUpTo(LinkUrls, MaxLinks)}

\* ------------------------------------------------------------------ state
VARIABLES
    pc,                      \* position of run() / crawl_tool
    config,                  \* self.config
    seen,                    \* crawl_tool: seen
    records,                 \* crawl_tool: records
    queue,                   \* crawl_tool: queue of <<url, from_url, depth>>
    sitemap_urls_to_process, \* crawl_tool: pending sitemap URLs
    processed_sitemaps,      \* crawl_tool: sitemap URLs already fetched
    batch,                   \* crawl_tool: rest of the current batch
    result,                  \* crawl_tool's return value (run(): records)
    unprocessed,             \* run(): rest of the leftover sweep
    stored,                  \* run(): stored
    processed_urls,          \* run(): processed_urls
    store,                   \* the results file: appended urls, in order
    returned,                \* value returned by run()
    attempts,                \* history: per url, how often its processing was entered
    swept,                   \* history: the urls the leftover sweep has fetched and processed
    sitemap_gets,            \* history: per sitemap url, the GETs sent for it by this crawl
    sitemap_listed,          \* history: the in-domain urls the leaf sitemaps have listed,
                             \* kept while the sitemap phase lasts
    norm_call,               \* the call of normalize_url under examination: its
                             \* argument, a second spelling of it, and the values returned
    validation,              \* the call of validate_tool under examination: the
                             \* classification, the verdict, and the classification
                             \* the Orchestrator goes on with
    disk,                    \* the Store under examination: what the results file
                             \* or table holds, and the appends made to it
    page,                    \* the render decision under examination: the fetched
                             \* page, the policy, and what the later stages are given
    last                     \* history: the call of the per-url entry point made by the latest step,
                             \* and the url the latest step sent a GET for

vars == <<pc, config, seen, records, queue, sitemap_urls_to_process,
          processed_sitemaps, batch, result, unprocessed, stored,
          processed_urls, store, returned, attempts, swept,
          sitemap_gets, sitemap_listed, norm_call, validation, disk, page, last>>

crawlVars == <<seen, records, queue, sitemap_urls_to_process,
               processed_sitemaps, batch, result>>

runVars == <<unprocessed, stored, processed_urls, store, returned, attempts,
             swept>>

\* no call of validate_tool is under examination
NoClassification ==
    [labels |-> <<>>, confidence |-> 0, matched_rules |-> <<>>,
     rationale |-> "", evidence |-> <<>>, needs_review |-> FALSE]

\* the model has not been asked
NoAnswer ==
    [kind |-> "none", labels |-> [kind |-> "missing", value |-> <<>>],
     confidence |-> [kind |-> "missing", value |-> 0],
     matched_rules |-> <<>>, needs_review |-> FALSE]

NoValidation ==
    [answer |-> NoAnswer, raised |-> FALSE,
     result |-> NoClassification,
     valid |-> FALSE, errors |-> <<>>,
     classification |-> NoClassification,
     appended |-> NoClassification]

\* the variables of the examinations of single functions; a run of the
\* pipeline leaves them alone
toolVars == <<norm_call, validation, disk, page>>

\* no Store is under examination
NoDisk == [format |-> "none", kind |-> "absent", prior |-> <<>>, file |-> <<>>,
           torn |-> FALSE, acked |-> <<>>, faults |-> 0]

\* render_tool has not been called
NoRender == [html |-> <<>>, final_url |-> "", error |-> "none"]

\* no page is under examination
NoPage ==
    [policy |-> [force_render |-> FALSE, min_text_chars |-> 0, spa_markers |-> <<>>],
     fetched |-> [html |-> <<>>, final_url |-> ""],
     html |-> <<>>, final_url |-> "", fetch_mode |-> "none",
     invoked |-> FALSE, render_result |-> NoRender,
     extracted |-> [html |-> <<>>, final_url |-> "", fetch_mode |-> "none"],
     stored |-> [final_url |-> "", fetch_mode |-> "none"],
     via |-> "none", trace |-> <<>>]

\* no call of normalize_url is under examination
NoNorm == [arg |-> <<>>, alt |-> <<>>, ret |-> <<>>, alt_ret |-> <<>>, ret2 |-> <<>>]

NormUrls ==
    {normalize_url(u) : u \in RawUrls \cup UNION {Range(l) : l \in StartUrlLists}}

NoCall == [url |-> NoUrl, via |-> None, fetch |-> None, outcome |-> None,
           raised |-> FALSE, result |-> NoUrl, before |-> None, state |-> None,
           appended |-> FALSE, expanded |-> FALSE, fetched |-> NoUrl,
           fetches |-> 0, got |-> None]

\* crawl_tool.py 54-56
allowed ==
    IF config.allowed_domains # {} THEN config.allowed_domains
    ELSE {netloc(u) : u \in Range(config.start_urls)}

\* crawl_tool.py 64-68: the seeds are marked seen and queued at depth 0
RECURSIVE seed_queue(_, _, _)
seed_queue(us, sn, q) ==
    IF us = <<>> THEN [seen |-> sn, queue |-> q]
    ELSE LET norm == normalize_url(Head(us)) IN
         IF norm \notin sn
         THEN seed_queue(Tail(us), sn \cup {norm}, Append(q, <<norm, NoUrl, 0>>))
         ELSE seed_queue(Tail(us), sn, q)

Init ==
    /\ pc = "start"
    /\ config \in Configs
    /\ seen = {}
    /\ records = <<>>
    /\ queue = <<>>
    /\ sitemap_urls_to_process = <<>>
    /\ processed_sitemaps = {}
    /\ batch = <<>>
    /\ result = <<>>
    /\ unprocessed = <<>>
    /\ stored = <<>>
    /\ processed_urls = {}
    /\ store = <<>>
    /\ returned = <<>>
    /\ attempts = [u \in NormUrls |-> 0]
    /\ swept = {}
    /\ sitemap_gets = [s \in SitemapPool |-> 0]
    /\ sitemap_listed = {}
    /\ norm_call = NoNorm
    /\ disk = NoDisk
    /\ page = NoPage
    /\ validation = NoValidation
    /\ last = NoCall

\* mcp_agent.py 46-61 and 94; crawl_tool.py 51-75
RunStart ==
    /\ pc = "start"
    /\ IF config.start_urls = <<>>
       THEN /\ pc' = "crawled"
            /\ UNCHANGED <<seen, queue, sitemap_urls_to_process>>
       ELSE LET sq == seed_queue(config.start_urls, {}, <<>>) IN
            /\ pc' = "sitemap"
            /\ seen' = sq.seen
            /\ queue' = sq.queue
            /\ sitemap_urls_to_process' =
                 [i \in 1..Len(config.start_urls) |-> sitemap_of(config.start_urls[i])]
    /\ UNCHANGED <<config, records, processed_sitemaps, batch, result>>
    /\ last' = NoCall
    /\ UNCHANGED runVars
    /\ UNCHANGED <<sitemap_gets, sitemap_listed>>
    /\ UNCHANGED toolVars

\* mutant: a sitemap entry is recorded whether or not it was seen before
loc_is_new_always(norm, sn) == TRUE

\* crawl_tool.py 111: a sitemap entry counts the first time its url is seen
loc_is_new(norm, sn) == norm \notin sn

\* crawl_tool.py 108-125: the <loc> entries of a leaf sitemap
RECURSIVE sitemap_locs(_, _, _, _)
sitemap_locs(locs, sitemap_url, sn, recs) ==
    IF locs = <<>> THEN [seen |-> sn, records |-> recs]
    ELSE LET norm == normalize_url(Head(locs)) IN
         IF ~loc_is_new(norm, sn) THEN sitemap_locs(Tail(locs), sitemap_url, sn, recs)
         ELSE IF allowed # {} /\ netloc(norm) \notin allowed
              THEN sitemap_locs(Tail(locs), sitemap_url, sn, recs)
         ELSE IF Len(recs) >= config.max_pages
              THEN [seen |-> sn, records |-> recs]
         ELSE sitemap_locs(Tail(locs), sitemap_url, sn \cup {norm},
                           Append(recs, URLRecord(norm, sitemap_url, 0)))

\* mutant: a popped sitemap url is fetched whether or not it was fetched before
already_fetched_never(sitemap_url) == FALSE

\* crawl_tool.py 88-89: a popped sitemap url that was fetched is skipped
already_fetched(sitemap_url) == sitemap_url \in processed_sitemaps

\* crawl_tool.py 93, 126-127: the try of the sitemap loop catches every Exception
sitemap_catches == TRUE

\* crawl_tool.py 81-127: one iteration of the sitemap loop
SitemapStep ==
    /\ pc = "sitemap"
    /\ sitemap_urls_to_process # <<>>
    /\ Len(records) < config.max_pages
    /\ LET sitemap_url == Head(sitemap_urls_to_process)
           rest == Tail(sitemap_urls_to_process)
       IN IF already_fetched(sitemap_url)
          THEN /\ sitemap_urls_to_process' = rest
               /\ last' = NoCall
               /\ UNCHANGED <<pc, processed_sitemaps, seen, records, sitemap_gets,
                              sitemap_listed>>
          ELSE /\ processed_sitemaps' = processed_sitemaps \cup {sitemap_url}
               /\ sitemap_gets' = [sitemap_gets EXCEPT ![sitemap_url] = @ + 1]
               /\ \E r \in SitemapResponses :
                    LET sl == sitemap_locs(r.locs, sitemap_url, seen, records) IN
                    /\ last' = [NoCall EXCEPT !.fetched = sitemap_url, !.got = r.kind]
                    /\ pc' = IF r.kind = "raise" /\ ~sitemap_catches THEN "aborted"
                             ELSE "sitemap"
                    /\ sitemap_urls_to_process' =
                         rest \o SelectSeq(r.refs, LAMBDA s : s \notin processed_sitemaps')
                    /\ seen' = sl.seen
                    /\ records' = sl.records
                    /\ sitemap_listed' = sitemap_listed \cup
                         {u \in {normalize_url(l) : l \in Range(r.locs)} :
                            netloc(u) \in allowed}
    /\ UNCHANGED <<config, queue, batch, result>>
    /\ UNCHANGED runVars
    /\ UNCHANGED toolVars

\* crawl_tool.py 81, 129-133: the sitemap loop ends
SitemapDone ==
    /\ pc = "sitemap"
    /\ ~(sitemap_urls_to_process # <<>> /\ Len(records) < config.max_pages)
    /\ pc' = "crawl"
    /\ UNCHANGED <<config, seen, records, queue, sitemap_urls_to_process,
                   processed_sitemaps, batch, result>>
    /\ last' = NoCall
    /\ UNCHANGED runVars
    /\ sitemap_listed' = {}
    /\ UNCHANGED sitemap_gets
    /\ UNCHANGED toolVars

\* mutant: the whole queue is taken as the batch
batch_size_whole_queue(q, recs) == Len(q)

\* mutant: the batch is one entry longer than the room left under the cap
batch_size_one_more(q, recs) == Min(config.max_pages - Len(recs) + 1, Len(q))

\* mutant: the batch is cut empty, the queue is never shortened
batch_size_none(q, recs) == 0

\* crawl_tool.py 139: len(queue[: max_pages - len(records)])
batch_size(q, recs) == Min(config.max_pages - Len(recs), Len(q))

\* crawl_tool.py 134-140: the next batch is cut from the queue
TakeBatch ==
    /\ pc = "crawl"
    /\ queue # <<>>
    /\ Len(records) < config.max_pages
    /\ LET n == batch_size(queue, records) IN
       /\ batch' = SubSeq(queue, 1, n)
       /\ queue' = SubSeq(queue, n + 1, Len(queue))
    /\ pc' = "batch"
    /\ UNCHANGED <<config, seen, records, sitemap_urls_to_process,
                   processed_sitemaps, result>>
    /\ last' = NoCall
    /\ UNCHANGED runVars
    /\ UNCHANGED <<sitemap_gets, sitemap_listed>>
    /\ UNCHANGED toolVars

\* ------------------------------------------------------------ orchestrator
\* What the collaborators do in one pass of _process_url_with_html: every
\* stage returns ("ok"), the renderer is invoked and reports an error while
\* every later stage returns ("render_error"), or one stage raises.
StageOutcomes ==
    {"ok", "render_error", "extract_raise", "classify_raise", "validate_raise",
     "store_raise"}

StageRaises == {"extract_raise", "classify_raise", "validate_raise"}

FetchFailures == {"absent", "bad_status", "transport_error"}

\* What fetch_tool reports to _process_url: a 200 page, a 404/410/403, any
\* other status, or a transport error carried in the result.
FetchOutcomes == {"ok", "absent", "bad_status", "transport_error"}

\* mutant: the results file is opened for writing instead of appending
storage_tool_rewrites(st, url) == <<url>>

\* storage_tool.py 72-84: one line is appended to the results file
storage_tool(st, url) == Append(st, url)

\* mutant: a Store failure is logged and swallowed, the built result returned
_process_url_with_html_swallows(rec, o, st) ==
    LET completes == o \in {"ok", "render_error"} IN
    [raised |-> o \in StageRaises,
     result |-> IF o \in StageRaises THEN NoUrl ELSE rec.url,
     store  |-> IF completes THEN storage_tool(st, rec.url) ELSE st,
     fetch  |-> None,
     outcome |-> o,
     before |-> rec.state,
     state  |-> rec.state]

\* mcp_agent.py 142-223.  o is what the collaborators do.  A render error
\* is not fatal (160-165).  Nothing is caught before the Store step; the
\* Store step logs and re-raises (212-221).  rec.state is never assigned:
\* it is at the return (or raise) what it was at the call.
_process_url_with_html(rec, o, st) ==
    LET completes == o \in {"ok", "render_error"} IN
    [raised |-> ~completes,
     result |-> IF completes THEN rec.url ELSE NoUrl,
     store  |-> IF completes THEN storage_tool(st, rec.url) ELSE st,
     fetch  |-> None,
     outcome |-> o,
     before |-> rec.state,
     state  |-> rec.state]

\* fetch_tool.py 24-41: whatever the client raises is turned into a
\* FetchResult with error set; fetch_tool itself raises nothing
fetch_tool_raises(f) == FALSE

\* mcp_agent.py 226: stop_after_attempt(3)
stop_after_attempt == 3

\* mcp_agent.py 225-232: the number of calls of fetch_tool made for one url.
\* The retry decorator has no retry= argument: it calls again only after
\* an exception, stop_after_attempt times at most.  f is what fetch_tool
\* reports.
_fetch_with_retry(f) == IF fetch_tool_raises(f) THEN stop_after_attempt ELSE 1

\* mutant: the fetch result is not examined
_process_url_ignores_fetch(rec, f, o, st) ==
    [_process_url_with_html(rec, o, st) EXCEPT !.fetch = f]

\* mcp_agent.py 116-140.  f is what the fetch reports.
_process_url(rec, f, o, st) ==
    IF rec.state \in TERMINAL_STATES \/ f # "ok"
    THEN [raised |-> FALSE, result |-> NoUrl, store |-> st, fetch |-> f,
          outcome |-> None, before |-> rec.state, state |-> rec.state]
    ELSE [_process_url_with_html(rec, o, st) EXCEPT !.fetch = f]

\* mutant: the callback does not consult processed_urls
already_processed_never(url) == FALSE

\* mcp_agent.py 66: the callback skips a url that is already processed
already_processed(url) == url \in processed_urls

\* mcp_agent.py 89-91: process_during_crawl catches every Exception
callback_catches == TRUE

\* crawl_tool.py 175-176: crawl_tool catches what the callback raises
crawl_catches_callback == TRUE

\* mutant: the traversal loop has no try around the fetch of an entry
crawl_lets_entry_through == FALSE

\* crawl_tool.py 157, 189-190: the per-entry try of the traversal loop
\* catches every Exception of the fetch and of what follows it
crawl_catches_entry == TRUE

\* mutant: the leftover sweep has no try/except
sweep_lets_through == FALSE

\* mcp_agent.py 110-111: the leftover sweep catches every Exception
sweep_catches == TRUE

\* history record of one call: what was called for which url, what the
\* environment did, and what the call did (appended: the Store grew)
Called(url, via, r) ==
    [url |-> url, via |-> via, fetch |-> r.fetch, outcome |-> r.outcome,
     raised |-> r.raised, result |-> r.result, before |-> r.before,
     state |-> r.state, appended |-> r.store # store, expanded |-> FALSE,
     fetched |-> NoUrl, fetches |-> 0, got |-> None]

\* mutant: the callback lists the url whether or not a result came back
process_during_crawl_lists_failures(url, o) ==
    IF already_processed(url)
    THEN [escaped |-> FALSE, stored |-> stored, processed_urls |-> processed_urls,
          store |-> store, attempts |-> attempts, last |-> NoCall]
    ELSE LET rec == URLRecord(url, Url("crawl", 0, FALSE), 0)
             r == _process_url_with_html(rec, o, store)
         IN [escaped |-> r.raised /\ ~callback_catches,
             stored |-> Append(stored, url),
             processed_urls |-> processed_urls \cup {url},
             store |-> r.store,
             attempts |-> [attempts EXCEPT ![url] = @ + 1],
             last |-> Called(url, "callback", r)]

\* mcp_agent.py 63-91: the callback; the value is the state of run() after
\* the call, and whether an exception leaves the callback.
process_during_crawl(url, o) ==
    IF already_processed(url)
    THEN [escaped |-> FALSE, stored |-> stored, processed_urls |-> processed_urls,
          store |-> store, attempts |-> attempts, last |-> NoCall]
    ELSE LET rec == URLRecord(url, Url("crawl", 0, FALSE), 0)
             r == _process_url_with_html(rec, o, store)
             good == ~r.raised /\ r.result # NoUrl
         IN [escaped |-> r.raised /\ ~callback_catches,
             stored |-> IF good THEN Append(stored, r.result) ELSE stored,
             processed_urls |-> IF good THEN processed_urls \cup {url}
                                ELSE processed_urls,
             store |-> r.store,
             attempts |-> [attempts EXCEPT ![url] = @ + 1],
             last |-> Called(url, "callback", r)]

\* crawl_tool.py 166: no callback for a page that is not HTML
no_callback ==
    [escaped |-> FALSE, stored |-> stored, processed_urls |-> processed_urls,
     store |-> store, attempts |-> attempts, last |-> NoCall]

\* mutant: anchors are queued whatever their depth
RECURSIVE enqueue_links_any_depth(_, _, _, _)
enqueue_links_any_depth(links, url, d, q) ==
    IF links = <<>> THEN q
    ELSE LET norm == normalize_url(Head(links)) IN
         IF norm \notin seen' /\ (allowed = {} \/ netloc(norm) \in allowed)
         THEN enqueue_links_any_depth(Tail(links), url, d, Append(q, <<norm, url, d + 1>>))
         ELSE enqueue_links_any_depth(Tail(links), url, d, q)

\* crawl_tool.py 178-188: the anchors of the fetched page are queued
RECURSIVE enqueue_links(_, _, _, _)
enqueue_links(links, url, d, q) ==
    IF links = <<>> THEN q
    ELSE LET norm == normalize_url(Head(links)) IN
         IF norm \notin seen' /\ (allowed = {} \/ netloc(norm) \in allowed)
            /\ d + 1 <= config.max_depth
         THEN enqueue_links(Tail(links), url, d, Append(q, <<norm, url, d + 1>>))
         ELSE enqueue_links(Tail(links), url, d, q)

\* mutant: the traversal loop does not look at the host of a batch entry
in_allowed_any(url) == TRUE

\* crawl_tool.py 144: the host of a batch entry is in the allowed set
in_allowed(url) == ~(allowed # {} /\ netloc(url) \notin allowed)

\* crawl_tool.py 146: a url is recorded the first time it is visited
record_is_new(url, sn) == url \notin sn

\* crawl_tool.py 141-190: one batch entry is filtered, recorded and fetched,
\* the page is handed to the callback and its anchors are queued
BatchEntry ==
    /\ pc = "batch"
    /\ batch # <<>>
    /\ batch' = Tail(batch)
    /\ LET url == Head(batch)[1]
           from_url == Head(batch)[2]
           d == Head(batch)[3]
       IN IF d > config.max_depth \/ ~in_allowed(url)
          THEN /\ last' = NoCall
               /\ UNCHANGED <<pc, seen, records, queue, stored, processed_urls,
                              store, attempts>>
          ELSE /\ IF record_is_new(url, seen)
                  THEN /\ seen' = seen \cup {url}
                       /\ records' = Append(records, URLRecord(url, from_url, d))
                  ELSE UNCHANGED <<seen, records>>
               /\ \E r \in PageResponses :
                  \E o \in (IF r.ok /\ r.html /\ ~already_processed(url)
                            THEN StageOutcomes ELSE {"ok"}) :
                    IF ~r.ok
                    THEN /\ last' = [NoCall EXCEPT
                                        !.fetched = url,
                                        !.got = IF r.raised THEN "raise" ELSE "bad_status"]
                         /\ pc' = IF r.raised /\ ~crawl_catches_entry THEN "aborted"
                                  ELSE "batch"
                         /\ UNCHANGED <<queue, stored, processed_urls, store,
                                        attempts>>
                    ELSE LET cb == IF r.html THEN process_during_crawl(url, o)
                                   ELSE no_callback
                         IN /\ stored' = cb.stored
                            /\ processed_urls' = cb.processed_urls
                            /\ store' = cb.store
                            /\ attempts' = cb.attempts
                            /\ IF cb.escaped /\ ~crawl_catches_callback
                               THEN /\ pc' = IF crawl_catches_entry THEN "batch"
                                             ELSE "aborted"
                                    /\ last' = [cb.last EXCEPT !.fetched = url,
                                                              !.got = "page"]
                                    /\ UNCHANGED queue
                               ELSE /\ pc' = "batch"
                                    /\ last' = [cb.last EXCEPT !.expanded = TRUE,
                                                              !.fetched = url,
                                                              !.got = "page"]
                                    /\ queue' = enqueue_links(r.links, url, d, queue)
    /\ UNCHANGED <<config, sitemap_urls_to_process, processed_sitemaps, result,
                   unprocessed, returned, swept, sitemap_gets,
                   sitemap_listed>>
    /\ UNCHANGED toolVars

\* crawl_tool.py 141: the batch is exhausted, back to the while test
BatchDone ==
    /\ pc = "batch"
    /\ batch = <<>>
    /\ pc' = "crawl"
    /\ last' = NoCall
    /\ UNCHANGED <<config, seen, records, queue, sitemap_urls_to_process,
                   processed_sitemaps, batch, result>>
    /\ UNCHANGED runVars
    /\ UNCHANGED <<sitemap_gets, sitemap_listed>>
    /\ UNCHANGED toolVars

\* crawl_tool.py 194-198: first record per url, truncated to max_pages
RECURSIVE by_url(_, _)
by_url(recs, acc) ==
    IF recs = <<>> THEN acc
    ELSE IF \E i \in 1..Len(acc) : acc[i].url = Head(recs).url
         THEN by_url(Tail(recs), acc)
         ELSE by_url(Tail(recs), Append(acc, Head(recs)))

dedup_result(recs) ==
    LET u == by_url(recs, <<>>) IN SubSeq(u, 1, Min(Len(u), config.max_pages))

\* crawl_tool.py 134, 192-200: the traversal loop ends and crawl_tool returns
CrawlReturn ==
    /\ pc = "crawl"
    /\ ~(queue # <<>> /\ Len(records) < config.max_pages)
    /\ result' = dedup_result(records)
    /\ pc' = "crawled"
    /\ last' = NoCall
    \* the locals of crawl_tool end with the call
    /\ seen' = {}
    /\ records' = <<>>
    /\ queue' = <<>>
    /\ sitemap_urls_to_process' = <<>>
    /\ processed_sitemaps' = {}
    /\ sitemap_gets' = [s \in SitemapPool |-> 0]
    /\ UNCHANGED sitemap_listed
    /\ UNCHANGED <<config, batch>>
    /\ UNCHANGED runVars
    /\ UNCHANGED toolVars

\* mutant: a record whose callback was entered is not swept
leftover_unattempted(recs) ==
    SelectSeq(recs, LAMBDA rec : rec.url \notin processed_urls /\ attempts[rec.url] = 0)

\* mcp_agent.py 98: the records the callback has not processed successfully
leftover(recs) == SelectSeq(recs, LAMBDA rec : rec.url \notin processed_urls)

\* mcp_agent.py 94-100: crawl_tool has returned, the leftover list is built
SweepStart ==
    /\ pc = "crawled"
    /\ unprocessed' = leftover(result)
    /\ pc' = "sweep"
    /\ last' = NoCall
    /\ UNCHANGED <<config, stored, processed_urls, store, returned, attempts, swept, sitemap_gets,
                   sitemap_listed>>
    /\ UNCHANGED crawlVars
    /\ UNCHANGED toolVars

\* mcp_agent.py 101-111: one iteration of the leftover sweep
SweepStep ==
    /\ pc = "sweep"
    /\ unprocessed # <<>>
    /\ unprocessed' = Tail(unprocessed)
    /\ \E f \in FetchOutcomes :
       \E o \in (IF f = "ok" THEN StageOutcomes ELSE {"ok"}) :
         LET rec == Head(unprocessed)
             r == _process_url(rec, f, o, store)
         IN /\ store' = r.store
            /\ attempts' = [attempts EXCEPT ![rec.url] = @ + 1]
            /\ swept' = IF rec.state \in TERMINAL_STATES THEN swept
                        ELSE swept \cup {rec.url}
            /\ last' = [Called(rec.url, "sweep", r) EXCEPT
                          !.fetched = IF rec.state \in TERMINAL_STATES THEN NoUrl
                                      ELSE rec.url,
                          !.fetches = IF rec.state \in TERMINAL_STATES THEN 0
                                      ELSE _fetch_with_retry(f)]
            /\ IF r.raised
               THEN /\ UNCHANGED stored
                    /\ pc' = IF sweep_catches THEN "sweep" ELSE "aborted"
               ELSE /\ pc' = "sweep"
                    /\ stored' = IF r.result # NoUrl THEN Append(stored, r.result)
                                 ELSE stored
    /\ UNCHANGED <<config, processed_urls, returned, sitemap_gets, sitemap_listed>>
    /\ UNCHANGED crawlVars
    /\ UNCHANGED toolVars

\* mcp_agent.py 113-114
RunReturn ==
    /\ pc = "sweep"
    /\ unprocessed = <<>>
    /\ returned' = stored
    /\ pc' = "done"
    /\ last' = NoCall
    /\ UNCHANGED <<config, unprocessed, stored, processed_urls, store, attempts, swept, sitemap_gets,
                   sitemap_listed>>
    /\ UNCHANGED crawlVars
    /\ UNCHANGED toolVars

Next ==
    \/ RunStart
    \/ SitemapStep
    \/ SitemapDone
    \/ TakeBatch
    \/ BatchEntry
    \/ BatchDone
    \/ CrawlReturn
    \/ SweepStart
    \/ SweepStep
    \/ RunReturn

Spec == Init /\ [][Next]_vars

TypeOK ==
    /\ pc \in {"start", "sitemap", "crawl", "batch", "crawled", "sweep", "done",
               "aborted"}
    /\ config \in Configs
    /\ seen \subseteq NormUrls
    /\ processed_urls \subseteq NormUrls
    /\ \A i \in 1..Len(records) : records[i].url \in NormUrls
    /\ \A i \in 1..Len(store) : store[i] \in NormUrls

\* ------------------------------------------------- normalize_url examined
\* every variable of the pipeline but pc
pipelineVars ==
    <<config, seen, records, queue, sitemap_urls_to_process, processed_sitemaps,
      batch, result, unprocessed, stored, processed_urls, store, returned,
      attempts, swept, sitemap_gets, sitemap_listed, last>>

\* no run of the pipeline is in progress
PipelineIdle ==
    /\ config = [start_urls |-> <<>>, allowed_domains |-> {}, max_pages |-> 1,
                 max_depth |-> 0]
    /\ seen = {}
    /\ records = <<>>
    /\ queue = <<>>
    /\ sitemap_urls_to_process = <<>>
    /\ processed_sitemaps = {}
    /\ batch = <<>>
    /\ result = <<>>
    /\ unprocessed = <<>>
    /\ stored = <<>>
    /\ processed_urls = {}
    /\ store = <<>>
    /\ returned = <<>>
    /\ attempts = [u \in NormUrls |-> 0]
    /\ swept = {}
    /\ sitemap_gets = [s \in SitemapPool |-> 0]
    /\ sitemap_listed = {}
    /\ last = NoCall

\* str.split(sep)
RECURSIVE split(_, _)
split(str, sep) ==
    LET i == find(str, sep, 1) IN
    IF i = 0 THEN <<str>>
    ELSE <<SubSeq(str, 1, i - 1)>> \o split(SubSeq(str, i + 1, Len(str)), sep)

\* the same query parameters, possibly in another order
SameParams(q1, q2) ==
    \/ q1 = q2
    \/ /\ q1 # <<>> /\ q2 # <<>>
       /\ LET p1 == split(Tail(q1), "&")
              p2 == split(Tail(q2), "&")
          IN /\ Len(p1) = Len(p2)
             /\ \E f \in Permutations(1..Len(p1)) :
                   \A i \in 1..Len(p1) : p1[i] = p2[f[i]]

\* The texts a url is put together from: scheme with its colon, "//" and
\* host, path, "?" and query, "#" and fragment; each may be absent.
UrlParts ==
    [scheme : {<<>>, <<"s", ":">>, <<"S", ":">>},
     authority : {<<>>, <<"/", "/">>, <<"/", "/", "h">>, <<"/", "/", "H">>},
     path : {<<>>, <<"/">>, <<"/", "a">>, <<"/", "a", "/">>},
     query : {<<>>, <<"?">>, <<"?", "/">>, <<"?", "a">>, <<"?", "a", "/">>,
              <<"?", "a", "&", "b">>, <<"?", "b", "&", "a">>},
     fragment : {<<>>, <<"#", "a">>}]

UrlText(c) == c.scheme \o c.authority \o c.path \o c.query \o c.fragment

\* two spellings that differ at most in the letter case of the scheme, or
\* in the letter case of the host, or in the order of the query parameters
SpellingsOfOneUrl(c, d) ==
    /\ c.path = d.path
    /\ c.fragment = d.fragment
    /\ lower_str(c.scheme) = lower_str(d.scheme)
    /\ lower_str(c.authority) = lower_str(d.authority)
    /\ SameParams(c.query, d.query)
    /\ Cardinality({k \in {"scheme", "authority", "query"} : c[k] # d[k]}) <= 1

\* The calls examined: every short string, and every url put together from
\* UrlParts, alone and next to a second spelling of it.
NormCalls ==
    {[NoNorm EXCEPT !.arg = u, !.alt = u] : u \in SeqsUpTo(UrlChars, MaxUrlLen)}
    \cup {[NoNorm EXCEPT !.arg = UrlText(c), !.alt = UrlText(d)] :
            <<c, d>> \in {cd \in UrlParts \X UrlParts : SpellingsOfOneUrl(cd[1], cd[2])}}

NormalizeInit ==
    /\ pc = "normalize"
    /\ PipelineIdle
    /\ norm_call \in NormCalls
    /\ validation = NoValidation
    /\ disk = NoDisk
    /\ page = NoPage

\* crawl_tool.py 17-32: normalize_url is applied to the argument and to its
\* second spelling
NormalizeUrl ==
    /\ pc = "normalize"
    /\ norm_call' = [norm_call EXCEPT !.ret = normalize_url_str(norm_call.arg),
                                      !.alt_ret = normalize_url_str(norm_call.alt)]
    /\ pc' = "normalized"
    /\ UNCHANGED <<pipelineVars, validation, disk, page>>

\* crawl_tool.py 17-32: normalize_url is applied to what it returned
NormalizeAgain ==
    /\ pc = "normalized"
    /\ norm_call' = [norm_call EXCEPT !.ret2 = normalize_url_str(norm_call.ret)]
    /\ pc' = "normalized_twice"
    /\ UNCHANGED <<pipelineVars, validation, disk, page>>

NormalizeNext ==
    \/ NormalizeUrl
    \/ NormalizeAgain

NormalizeSpec == NormalizeInit /\ [][NormalizeNext]_vars

\* ------------------------------------------------- validate_tool examined
MaxLabels == 2          \* labels of one ClassificationResult

\* classification_result.py 9-16
ALLOWED_LABELS ==
    {"INVESTOR_BEGINNER", "INVESTOR_QUALIFIED", "ISSUER_BEGINNER",
     "ISSUER_ADVANCED", "PROFESSIONAL", "OTHER"}

\* what the classifier can put into labels: the taxonomy and a label that
\* is not in it
Labels == ALLOWED_LABELS \cup {"COMPETITOR"}

\* confidence in tenths: classification_result.py 33 keeps it in [0.0, 1.0]
Confidences == {0, 4, 5, 10}

\* classification_result.py 29-38: labels may be empty, mixed, or repeat
ClassificationResults ==
    [labels : SeqsUpTo(Labels, MaxLabels),
     confidence : Confidences,
     matched_rules : {<<>>, <<"R1">>},
     rationale : {"", "why"},
     evidence : {<<>>, <<"quote">>},
     needs_review : BOOLEAN]

\* classification_result.py 40-45: ClassificationResult.label of cr: the first label, OTHER when there is none
label(cr) == IF cr.labels = <<>> THEN "OTHER" ELSE cr.labels[1]

\* a validator that reports no error
validate_tool_passes(cr) == [valid |-> TRUE, errors |-> <<>>]

\* validate_tool.py 10-56.  Rule 3 (41-46) adds no error.  The value is
\* (is_valid, errors).
validate_tool(cr) ==
    LET e1 == IF label(cr) \notin ALLOWED_LABELS
              THEN <<"Invalid label">> ELSE <<>>
        e2 == IF ~(0 <= cr.confidence /\ cr.confidence <= 10)
              THEN <<"Confidence must be in [0,1]">> ELSE <<>>
        e4 == IF label(cr) # "OTHER" /\ cr.matched_rules = <<>>
                 /\ ~cr.needs_review
              THEN <<"Non-OTHER classification without matched_rules must have needs_review=true">>
              ELSE <<>>
        e5 == IF cr.confidence < 5 /\ ~cr.needs_review
              THEN <<"Confidence < 0.5 must have needs_review=true">> ELSE <<>>
        errors == e1 \o e2 \o e4 \o e5
    IN [valid |-> errors = <<>>, errors |-> errors]

\* mutant: needs_review is set to what the two rules ask for
apply_validation_fixes_resets(cr) ==
    [cr EXCEPT !.needs_review =
        (label(cr) # "OTHER" /\ cr.matched_rules = <<>>) \/ cr.confidence < 5]

\* validate_tool.py 59-65: model_copy(update=...) makes a new object that
\* differs from cr in needs_review only; cr keeps its fields
apply_validation_fixes(cr) ==
    LET r1 == IF label(cr) # "OTHER" /\ cr.matched_rules = <<>>
              THEN [cr EXCEPT !.needs_review = TRUE] ELSE cr
    IN IF r1.confidence < 5 THEN [r1 EXCEPT !.needs_review = TRUE] ELSE r1

ValidateInit ==
    /\ pc = "validate"
    /\ PipelineIdle
    /\ norm_call = NoNorm
    /\ disk = NoDisk
    /\ page = NoPage
    /\ \E c \in ClassificationResults :
         validation = [NoValidation EXCEPT !.result = c, !.classification = c]

\* mcp_agent.py 184: valid, errors = validate_tool(classification, ...)
Validate ==
    /\ pc = "validate"
    /\ LET v == validate_tool(validation.result) IN
       validation' = [validation EXCEPT !.valid = v.valid, !.errors = v.errors]
    /\ pc' = "validated"
    /\ UNCHANGED <<pipelineVars, norm_call, disk, page>>

\* an orchestrator that gives up a classification that is not valid
after_validation_drops(valid) == IF valid THEN "fixed" ELSE "dropped"

\* mcp_agent.py 185-189: neither branch of "if not valid" returns or raises;
\* both go on to build the stored result
after_validation(valid) == "fixed"

\* mcp_agent.py 185-187: a classification that is not valid is passed
\* through apply_validation_fixes
ApplyFixes ==
    /\ pc = "validated"
    /\ validation' =
         [validation EXCEPT !.classification =
             IF validation.valid THEN @ ELSE apply_validation_fixes(@)]
    /\ pc' = after_validation(validation.valid)
    /\ UNCHANGED <<pipelineVars, norm_call, disk, page>>

\* validate_tool.py 59-65: apply_validation_fixes is called on the
\* classification, whatever validate_tool would say about it
Correct ==
    /\ pc = "validate"
    /\ validation' =
         [validation EXCEPT !.classification = apply_validation_fixes(validation.result)]
    /\ pc' = "corrected"
    /\ UNCHANGED <<pipelineVars, norm_call, disk, page>>

ValidateNext ==
    \/ Validate
    \/ ApplyFixes
    \/ Correct

ValidateSpec == ValidateInit /\ [][ValidateNext]_vars

\* --------------------------------------------- classify_llm_tool examined
\* What the model can write into "labels": the taxonomy, a label outside
\* it, two spellings that upper() and strip() turn into taxonomy labels, and
\* the empty string.
RawLabels == Labels \cup {"other", " professional", ""}

\* str(l).upper().strip()
upper_strip(l) ==
    CASE l = "other" -> "OTHER"
      [] l = " professional" -> "PROFESSIONAL"
      [] OTHER -> l

\* The "labels" of a model answer: the key is missing, a single string, a
\* list of strings, or a value that cannot be iterated (a number, null).
AnswerLabels ==
    {[kind |-> k, value |-> <<>>] : k \in {"missing", "not_iterable"}}
    \cup {[kind |-> "string", value |-> <<l>>] : l \in RawLabels}
    \cup {[kind |-> "list", value |-> ls] : ls \in SeqsUpTo(RawLabels, MaxLabels)}

\* The "confidence" of a model answer, in tenths: missing, a number (also
\* outside [0, 1]), or something float() does not take ("high", null).
AnswerConfidences ==
    {[kind |-> k, value |-> 0] : k \in {"missing", "non_numeric"}}
    \cup {[kind |-> "number", value |-> v] : v \in {-5, 0, 4, 5, 10, 15}}

\* What classify_llm_tool meets: no api key, an exception of the API call,
\* an empty completion, text that is not JSON, JSON that is not an object,
\* or a JSON object.
Answers ==
    {[NoAnswer EXCEPT !.kind = k] :
        k \in {"no_key", "api_error", "empty", "not_json", "not_object"}}
    \cup [kind : {"object"}, labels : AnswerLabels, confidence : AnswerConfidences,
          matched_rules : {<<>>, <<"R1">>}, needs_review : BOOLEAN]

\* classify_llm_tool.py 106-115, 160-168, 184-192, 223-231
fallback_result ==
    [labels |-> <<"OTHER">>, confidence |-> 0, matched_rules |-> <<>>,
     rationale |-> "fallback", evidence |-> <<>>, needs_review |-> TRUE]

\* classify_llm_tool.py 237-247: each label is upper-cased and stripped,
\* empty ones and those outside the taxonomy are dropped
RECURSIVE valid_labels(_)
valid_labels(ls) ==
    IF ls = <<>> THEN <<>>
    ELSE LET lbl == upper_strip(Head(ls)) IN
         IF Head(ls) # "" /\ lbl \in ALLOWED_LABELS
         THEN <<lbl>> \o valid_labels(Tail(ls))
         ELSE valid_labels(Tail(ls))

\* the coercion without lines 249-253: OTHER stays beside the other labels
coerce_labels_keeps_other(labels_raw) ==
    LET given == IF labels_raw.kind = "missing" THEN <<"OTHER">> ELSE labels_raw.value
        vl == valid_labels(given)
    IN IF vl = <<>> THEN <<"OTHER">> ELSE vl

\* classify_llm_tool.py 233-257
coerce_labels(labels_raw) ==
    LET given == IF labels_raw.kind = "missing" THEN <<"OTHER">> ELSE labels_raw.value
        vl == valid_labels(given)
    IN IF "OTHER" \in Range(vl) \/ vl = <<>> THEN <<"OTHER">> ELSE vl

\* classify_llm_tool.py 259: max(0.0, min(1.0, float(...)))
clamp(v) == IF v < 0 THEN 0 ELSE IF v > 10 THEN 10 ELSE v

\* classify_llm_tool.py 95-274.  The fallbacks are returned where the code
\* returns them; after json.loads (217-231) nothing is inside a try: data.get
\* on a value that is not an object (234), the loop over labels that cannot
\* be iterated (237) and float() of a non-number (259) raise.
classify_llm_tool(answer) ==
    IF answer.kind \in {"no_key", "api_error", "empty", "not_json"}
    THEN [raised |-> FALSE, result |-> fallback_result]
    ELSE IF \/ answer.kind = "not_object"
            \/ answer.labels.kind = "not_iterable"
            \/ answer.confidence.kind = "non_numeric"
    THEN [raised |-> TRUE, result |-> NoClassification]
    ELSE [raised |-> FALSE,
          result |-> [labels |-> coerce_labels(answer.labels),
                      confidence |-> clamp(answer.confidence.value),
                      matched_rules |-> answer.matched_rules,
                      rationale |-> "why", evidence |-> <<>>,
                      needs_review |-> answer.needs_review]]

ClassifyInit ==
    /\ pc = "classify"
    /\ PipelineIdle
    /\ norm_call = NoNorm
    /\ disk = NoDisk
    /\ page = NoPage
    /\ \E a \in Answers : validation = [NoValidation EXCEPT !.answer = a]

\* mcp_agent.py 180: classification = classify_llm_tool(page_package, config)
Classify ==
    /\ pc = "classify"
    /\ LET c == classify_llm_tool(validation.answer) IN
       /\ validation' = [validation EXCEPT !.raised = c.raised, !.result = c.result,
                                           !.classification = c.result]
       /\ pc' = IF c.raised THEN "raised" ELSE "validate"
    /\ UNCHANGED <<pipelineVars, norm_call, disk, page>>

\* mcp_agent.py 189-223: the StoredClassification is built from the
\* classification and handed to the storage tool, whose exception is logged
\* and raised again
Store ==
    /\ pc = "fixed"
    /\ validation' = [validation EXCEPT !.appended = validation.classification]
    /\ \E ok \in BOOLEAN : pc' = IF ok THEN "stored" ELSE "store_failed"
    /\ UNCHANGED <<pipelineVars, norm_call, disk, page>>

ClassifyNext ==
    \/ Classify
    \/ Validate
    \/ ApplyFixes
    \/ Store

ClassifySpec == ClassifyInit /\ [][ClassifyNext]_vars

\* _process_url_with_html is straight-line code: a stage that can run does
FairClassifySpec == ClassifySpec /\ WF_vars(ClassifyNext)

\* ------------------------------------------------------ the Store examined
MaxPrior == 2           \* records the Store holds before run()
MaxAppends == 3         \* calls of the storage tool in one run
MaxFaults == 1          \* calls of the storage tool that raise, the run going on

StoreUrls == {"u1", "u2"}

\* where the results go: export_format "jsonl" (storage_tool.py 72), any other
\* export_format (94), or a storage_path ending in ".db" (mcp_agent.py 214)
Formats == {"jsonl", "json", "sqlite"}

\* A record of the Store: its url, and gen, which tells the records apart: 0
\* for a record of an earlier run, k for the one handed to the k-th call of
\* the storage tool in this run.
PriorRecords == [url : StoreUrls, gen : {0}]

\* What run() can find at storage_path: nothing, a file or table with
\* records of an earlier run (a table has one row per url; a line-delimited
\* file may end in a line that was not finished), or a database file without
\* the table.
PriorDisks ==
    {[NoDisk EXCEPT !.format = f] : f \in Formats}
    \cup {[NoDisk EXCEPT !.format = "sqlite", !.kind = "no_table"]}
    \cup {d \in {[NoDisk EXCEPT !.format = f, !.kind = "present", !.prior = p,
                                 !.file = p, !.torn = t] :
                    f \in Formats, t \in BOOLEAN,
                    p \in SeqsUpTo(PriorRecords, MaxPrior)} :
            /\ d.format = "sqlite" => NoDup([i \in 1..Len(d.file) |-> d.file[i].url])
            /\ d.torn => d.format = "jsonl"}

\* init_storage that leaves an existing table as it is
init_storage_keeps(d) ==
    IF d.format = "sqlite"
    THEN IF d.kind = "no_table" THEN [d EXCEPT !.kind = "absent"] ELSE d
    ELSE [d EXCEPT !.kind = "present", !.file = <<>>, !.torn = FALSE]

\* storage_tool.py 14-45.  A database file that exists has its table emptied
\* (29-32), or is deleted when it has no table (34-37); any other file is
\* deleted and created empty (40-44).
init_storage(d) ==
    IF d.format = "sqlite"
    THEN IF d.kind = "absent" THEN d
         ELSE IF d.kind = "present" THEN [d EXCEPT !.file = <<>>]
         ELSE [d EXCEPT !.kind = "absent", !.file = <<>>]
    ELSE [d EXCEPT !.kind = "present", !.file = <<>>, !.torn = FALSE]

\* storage_tool.py 72-93: one line is appended.  After a line that was not
\* finished, the new line continues it and is no record a reader can parse.
storage_tool_jsonl(d, rec) ==
    [d EXCEPT !.kind = "present",
              !.file = IF d.torn THEN @ ELSE Append(@, rec),
              !.torn = FALSE]

\* storage_tool.py 94-122: the array is read (empty when the file is empty
\* or does not parse), the record is added and the file is written anew
storage_tool_json(d, rec) ==
    [d EXCEPT !.kind = "present", !.file = Append(@, rec)]

\* a table without the key: every record is a new row
storage_tool_sqlite_inserts(d, rec) ==
    [d EXCEPT !.kind = "present", !.file = Append(@, rec)]

\* storage_tool.py 128-187: CREATE TABLE IF NOT EXISTS with url as PRIMARY
\* KEY, INSERT OR REPLACE, commit
storage_tool_sqlite(d, rec) ==
    [d EXCEPT !.kind = "present",
              !.file = Append(SelectSeq(@, LAMBDA r : r.url # rec.url), rec)]

\* mcp_agent.py 214-217
store_record(d, rec) ==
    CASE d.format = "sqlite" -> storage_tool_sqlite(d, rec)
      [] d.format = "jsonl" -> storage_tool_jsonl(d, rec)
      [] OTHER -> storage_tool_json(d, rec)

\* What the Store can hold when a call of the storage tool does not return:
\* it has not written yet, it has written everything, or it stopped in
\* between: with a part of the line in the file (storage_tool.py 77-79),
\* with the array file opened for writing and so emptied (114-115), or before
\* the commit (186).
interrupted(d, rec) ==
    CASE d.format = "sqlite" -> {d, storage_tool_sqlite(d, rec)}
      [] d.format = "jsonl" ->
            {d, [d EXCEPT !.kind = "present", !.torn = TRUE],
             storage_tool_jsonl(d, rec)}
      [] OTHER ->
            {d, [d EXCEPT !.kind = "present", !.file = <<>>],
             storage_tool_json(d, rec)}

\* the record the next call of the storage tool is given, for url u
next_record(u) == [url |-> u, gen |-> Len(disk.acked) + disk.faults + 1]

StoreInit ==
    /\ pc = "store_init"
    /\ PipelineIdle
    /\ norm_call = NoNorm
    /\ validation = NoValidation
    /\ page = NoPage
    /\ disk \in PriorDisks

\* mcp_agent.py 48-53: run() begins with init_storage
InitStorage ==
    /\ pc = "store_init"
    /\ disk' = init_storage(disk)
    /\ pc' = "store"
    /\ UNCHANGED <<pipelineVars, norm_call, validation, page>>

\* mcp_agent.py 209-217: the storage tool is given a record and returns
AppendRecord ==
    /\ pc = "store"
    /\ Len(disk.acked) + disk.faults < MaxAppends
    /\ \E u \in StoreUrls :
         disk' = [store_record(disk, next_record(u)) EXCEPT
                     !.acked = Append(@, next_record(u))]
    /\ pc' = "store"
    /\ UNCHANGED <<pipelineVars, norm_call, validation, page>>

\* mcp_agent.py 218-221, 75-78: the storage tool raises; the exception is
\* raised again and caught by the caller of the per-url processing, and the
\* run goes on
AppendFails ==
    /\ pc = "store"
    /\ disk.faults < MaxFaults
    /\ Len(disk.acked) + disk.faults < MaxAppends
    /\ \E u \in StoreUrls : \E d \in interrupted(disk, next_record(u)) :
         disk' = [d EXCEPT !.faults = @ + 1]
    /\ pc' = "store"
    /\ UNCHANGED <<pipelineVars, norm_call, validation, page>>

\* the process dies inside a call of the storage tool
Crash ==
    /\ pc = "store"
    /\ Len(disk.acked) + disk.faults < MaxAppends
    /\ \E u \in StoreUrls : \E d \in interrupted(disk, next_record(u)) :
         disk' = d
    /\ pc' = "crashed"
    /\ UNCHANGED <<pipelineVars, norm_call, validation, page>>

StoreNext ==
    \/ InitStorage
    \/ AppendRecord
    \/ AppendFails
    \/ Crash

StoreSpec == StoreInit /\ [][StoreNext]_vars

\* ------------------------------------------------ the render step examined
MaxHtmlLen == 3         \* characters of a fetched page
MaxMarkers == 2         \* entries of render_policy.spa_markers

HtmlChars == {"x", "N", "R"}

Htmls == SeqsUpTo(HtmlChars, MaxHtmlLen)

\* strings a configuration can name as SPA markers, the empty string among them
Markers == {<<"N", "R">>, <<"R">>, <<>>}

\* loader.py 19-26: RenderPolicy; min_text_chars has no lower or upper limit
RenderPolicies ==
    [force_render : BOOLEAN, min_text_chars : {0, 2, 300},
     spa_markers : SeqsUpTo(Markers, MaxMarkers)]

\* m in html
contains(html, m) ==
    \E i \in 1..(Len(html) - Len(m) + 1) : SubSeq(html, i, i + Len(m) - 1) = m

\* a policy that looks at the length only
needs_render_by_length(policy, html) ==
    policy.force_render \/ Len(html) < policy.min_text_chars

\* mcp_agent.py 154-159
needs_render(policy, html) ==
    \/ policy.force_render
    \/ Len(html) < policy.min_text_chars
    \/ \E k \in 1..Len(policy.spa_markers) : contains(html, policy.spa_markers[k])

\* render_tool.py 15-39: render_tool raises nothing.  Without the backend or
\* on any exception (whose message may be empty) it returns no html, the url
\* it was given and the message; otherwise the content and the url of the
\* browser page.
RenderResults(url) ==
    {[html |-> <<>>, final_url |-> url, error |-> e] : e \in {"timeout", ""}}
    \cup {[html |-> h, final_url |-> fu, error |-> "none"] :
            h \in {<<>>, <<"r">>}, fu \in {url, "redirected"}}

\* a render result is taken whenever it carries no error
render_taken_unless_error(rr) == rr.error \in {"none", ""}

\* mcp_agent.py 162: not render_result.error and render_result.html
render_taken(rr) == rr.error \in {"none", ""} /\ rr.html # <<>>

RenderInit ==
    /\ pc = "fetched"
    /\ PipelineIdle
    /\ norm_call = NoNorm
    /\ validation = NoValidation
    /\ disk = NoDisk
    /\ \E pol \in RenderPolicies, h \in Htmls :
         page = [NoPage EXCEPT !.policy = pol,
                               !.fetched = [html |-> h, final_url |-> "page"],
                               !.html = h, !.final_url = "page"]

\* mcp_agent.py 151-165
Render ==
    /\ pc = "fetched"
    /\ IF needs_render(page.policy, page.html)
       THEN \E rr \in RenderResults(page.final_url) :
              page' = IF render_taken(rr)
                      THEN [page EXCEPT !.invoked = TRUE, !.render_result = rr,
                                        !.html = rr.html, !.final_url = rr.final_url,
                                        !.fetch_mode = "render"]
                      ELSE [page EXCEPT !.invoked = TRUE, !.render_result = rr,
                                        !.fetch_mode = "http"]
       ELSE page' = [page EXCEPT !.fetch_mode = "http"]
    /\ pc' = "extract"
    /\ UNCHANGED <<pipelineVars, norm_call, validation, disk>>

\* mcp_agent.py 167-187: extract_tool is given html, final_url and fetch_mode;
\* it, classify_llm_tool or validate_tool returns or raises
Extract ==
    /\ pc = "extract"
    /\ page' = [page EXCEPT !.extracted = [html |-> page.html,
                                           final_url |-> page.final_url,
                                           fetch_mode |-> page.fetch_mode]]
    /\ \E ok \in BOOLEAN : pc' = IF ok THEN "build" ELSE "raised"
    /\ UNCHANGED <<pipelineVars, norm_call, validation, disk>>

\* mcp_agent.py 189-223: the StoredClassification takes final_url and
\* fetch_mode, and is handed to the storage tool
StoreRendered ==
    /\ pc = "build"
    /\ page' = [page EXCEPT !.stored = [final_url |-> page.final_url,
                                        fetch_mode |-> page.fetch_mode]]
    /\ \E ok \in BOOLEAN : pc' = IF ok THEN "stored" ELSE "store_failed"
    /\ UNCHANGED <<pipelineVars, norm_call, validation, disk>>

RenderNext ==
    \/ Render
    \/ Extract
    \/ StoreRendered

RenderSpec == RenderInit /\ [][RenderNext]_vars

\* ------------------------------------------------- one pass for one url
\* mutant: the result is built and stored right after classification
next_stage_skips_validate(stage) ==
    CASE stage = "fetch" -> "render"
      [] stage = "render" -> "extract"
      [] stage = "extract" -> "classify"
      [] stage = "classify" -> "store"
      [] stage = "validate" -> "store"
      [] OTHER -> "returned"

\* mcp_agent.py 116-223: the statement reached when a stage has returned.
\* _process_url and _process_url_with_html are straight-line code: there is
\* no loop and no jump back.
next_stage(stage) ==
    CASE stage = "fetch" -> "render"
      [] stage = "render" -> "extract"
      [] stage = "extract" -> "classify"
      [] stage = "classify" -> "validate"
      [] stage = "validate" -> "store"
      [] OTHER -> "returned"

\* One pass: the page comes from the callback of the traversal or is
\* fetched by the leftover sweep; page.trace lists the stages in the order
\* in which they were entered.
PassInit ==
    /\ pc = "pass"
    /\ PipelineIdle
    /\ norm_call = NoNorm
    /\ validation = NoValidation
    /\ disk = NoDisk
    /\ \E pol \in RenderPolicies, h \in Htmls, v \in {"callback", "sweep"} :
         page = [NoPage EXCEPT !.policy = pol,
                               !.fetched = [html |-> h, final_url |-> "page"],
                               !.via = v]

\* mcp_agent.py 63-83: process_during_crawl passes the page the traversal
\* has fetched
PassGiven ==
    /\ pc = "pass"
    /\ page.via = "callback"
    /\ page' = [page EXCEPT !.html = page.fetched.html,
                            !.final_url = page.fetched.final_url,
                            !.trace = Append(@, "given")]
    /\ pc' = next_stage("fetch")
    /\ UNCHANGED <<pipelineVars, norm_call, validation, disk>>

\* mcp_agent.py 116-140: _process_url fetches, and returns None unless the
\* fetch delivered an error-free 200
PassFetch ==
    /\ pc = "pass"
    /\ page.via = "sweep"
    /\ \E f \in FetchOutcomes :
         /\ page' = [page EXCEPT
                        !.html = IF f = "ok" THEN page.fetched.html ELSE <<>>,
                        !.final_url = IF f = "ok" THEN page.fetched.final_url ELSE "",
                        !.trace = Append(@, "fetch")]
         /\ pc' = IF f = "ok" THEN next_stage("fetch") ELSE "returned_none"
    /\ UNCHANGED <<pipelineVars, norm_call, validation, disk>>

\* mcp_agent.py 151-165
PassRender ==
    /\ pc = "render"
    /\ IF needs_render(page.policy, page.html)
       THEN \E rr \in RenderResults(page.final_url) :
              page' = IF render_taken(rr)
                      THEN [page EXCEPT !.invoked = TRUE, !.render_result = rr,
                                        !.html = rr.html, !.final_url = rr.final_url,
                                        !.fetch_mode = "render",
                                        !.trace = Append(@, "render")]
                      ELSE [page EXCEPT !.invoked = TRUE, !.render_result = rr,
                                        !.fetch_mode = "http",
                                        !.trace = Append(@, "render")]
       ELSE page' = [page EXCEPT !.fetch_mode = "http"]
    /\ pc' = next_stage("render")
    /\ UNCHANGED <<pipelineVars, norm_call, validation, disk>>

\* mcp_agent.py 167-176: extract_tool returns or raises
PassExtract ==
    /\ pc = "extract"
    /\ page' = [page EXCEPT !.extracted = [html |-> page.html,
                                           final_url |-> page.final_url,
                                           fetch_mode |-> page.fetch_mode],
                            !.trace = Append(@, "extract")]
    /\ \E ok \in BOOLEAN : pc' = IF ok THEN next_stage("extract") ELSE "raised"
    /\ UNCHANGED <<pipelineVars, norm_call, validation, disk>>

\* mcp_agent.py 178-181: classify_llm_tool returns or raises
PassClassify ==
    /\ pc = "classify"
    /\ page' = [page EXCEPT !.trace = Append(@, "classify")]
    /\ \E ok \in BOOLEAN : pc' = IF ok THEN next_stage("classify") ELSE "raised"
    /\ UNCHANGED <<pipelineVars, norm_call, validation, disk>>

\* mcp_agent.py 183-187: validate_tool, and apply_validation_fixes when the
\* classification is not valid
PassValidate ==
    /\ pc = "validate"
    /\ page' = [page EXCEPT !.trace = Append(@, "validate")]
    /\ \E ok \in BOOLEAN : pc' = IF ok THEN next_stage("validate") ELSE "raised"
    /\ UNCHANGED <<pipelineVars, norm_call, validation, disk>>

\* mcp_agent.py 189-223: the result is built and handed to the storage tool
PassStore ==
    /\ pc = "store"
    /\ page' = [page EXCEPT !.stored = [final_url |-> page.final_url,
                                        fetch_mode |-> page.fetch_mode],
                            !.trace = Append(@, "store")]
    /\ \E ok \in BOOLEAN : pc' = IF ok THEN next_stage("store") ELSE "raised"
    /\ UNCHANGED <<pipelineVars, norm_call, validation, disk>>

PassNext ==
    \/ PassGiven
    \/ PassFetch
    \/ PassRender
    \/ PassExtract
    \/ PassClassify
    \/ PassValidate
    \/ PassStore

PassSpec == PassInit /\ [][PassNext]_vars

\* ================================================================ claims
Urls(recs) == [i \in 1..Len(recs) |-> recs[i].url]

\* ProcessingState in its declared order (url_record.py 13-21); the three
\* terminal states share the last rank
StateRank(st) ==
    CASE st = "DISCOVERED" -> 0
      [] st = "FETCHED" -> 1
      [] st = "RENDERED" -> 2
      [] st = "EXTRACTED" -> 3
      [] st = "CLASSIFIED" -> 4
      [] st = "VALIDATED" -> 5
      [] OTHER -> 6

C2_ProcessedAtMostOnce == \A u \in NormUrls : attempts[u] <= 1

\* C3 (as claimed): over the processing of a record its state never moves
\* backwards, and when the processing has ended the state is terminal.
C3_StateForwardAndTerminal ==
    last.url # NoUrl =>
        /\ StateRank(last.before) <= StateRank(last.state)
        /\ last.state \in TERMINAL_STATES

\* C4: an exception of Extract, Classify or Validate fails its url only: the
\* run is never aborted, after the callback raised the page's anchors are
\* still queued and the traversal goes on, after a sweep entry raised the
\* sweep goes on with the rest of the list, and run() returns what it stored.
C4_StageExceptionFailsOneUrl ==
    /\ pc # "aborted"
    /\ (last.outcome \in StageRaises /\ last.via = "callback")
          => (pc = "batch" /\ last.expanded)
    /\ (last.outcome \in StageRaises /\ last.via = "sweep") => pc = "sweep"
    /\ pc = "done" => (unprocessed = <<>> /\ returned = stored)

\* a sweep entry has just raised in a stage and the sweep still has entries
C4_Witness ==
    /\ last.via = "sweep"
    /\ last.outcome \in StageRaises
    /\ unprocessed # <<>>

\* C5 (as claimed): no failure of fetch, extract, classify or validate leaves
\* the per-url entry point as an exception; it returns no result instead.
C5_NoStageFailureEscapes ==
    (last.fetch \in FetchFailures \/ last.outcome \in StageRaises)
        => (~last.raised /\ last.result = NoUrl)

\* C5 (amended): a fetch failure returns no result without raising and a
\* render error does not fail the url; an exception of extract, classify or
\* validate leaves the entry point and is caught by its caller in run();
\* in the failing cases nothing is appended to the Store.
C5_FailuresByStage ==
    /\ last.fetch \in FetchFailures
          => (~last.raised /\ last.result = NoUrl /\ ~last.appended)
    /\ last.outcome = "render_error"
          => (~last.raised /\ last.result = last.url /\ last.appended)
    /\ last.outcome \in StageRaises
          => (last.raised /\ last.result = NoUrl /\ ~last.appended
              /\ pc \in {"batch", "sweep"})

\* the sweep's fetch has just failed
C5_Witness == last.via = "sweep" /\ last.fetch \in FetchFailures

C8_FrontierDedup ==
    /\ NoDup(Urls(records))
    /\ \A i \in 1..Len(records) : records[i].url \in seen
    /\ NoDup(Urls(result))

\* the batch holds a second queue entry for a url that is already recorded
C8_Witness ==
    /\ Len(records) >= 1
    /\ \E i \in 1..Len(batch) : \E j \in 1..Len(records) : batch[i][1] = records[j].url

\* C9: records never has more than max_pages entries, nor has the returned
\* list.
C9_FrontierBound ==
    /\ Len(records) <= config.max_pages
    /\ Len(result) <= config.max_pages

\* the cap is reached during the traversal while queue entries remain
C9_Witness ==
    /\ pc \in {"batch", "crawl"}
    /\ Len(records) = config.max_pages
    /\ batch \o queue # <<>>

\* C10: no record is deeper than max_depth, sitemap records have depth 0,
\* and no queue entry is deeper than max_depth.
C10_DepthBound ==
    /\ \A i \in 1..Len(records) :
          /\ records[i].depth <= config.max_depth
          /\ records[i].discovered_from.path < 0 => records[i].depth = 0
    /\ \A i \in 1..Len(result) : result[i].depth <= config.max_depth
    /\ \A i \in 1..Len(queue) : queue[i][3] <= config.max_depth
    /\ \A i \in 1..Len(batch) : batch[i][3] <= config.max_depth

\* a record at the depth limit, below the seeds, next to a sitemap record
C10_Witness ==
    /\ \E i \in 1..Len(result) :
          result[i].depth = config.max_depth /\ result[i].depth >= 1
    /\ \E i \in 1..Len(result) : result[i].discovered_from.path < 0

FairSitemapSpec == Spec /\ WF_vars(SitemapStep) /\ WF_vars(SitemapDone)

\* C12: whatever the sitemap documents are (failing, raising, indexes that
\* reference themselves or each other, the same sitemap referenced twice),
\* no sitemap url is fetched twice, no exception leaves the sitemap loop,
\* and the sitemap phase ends: the link traversal is reached.
C12_SitemapPhaseTerminates ==
    /\ [](\A s \in SitemapPool : sitemap_gets[s] <= 1)
    /\ [][pc = "sitemap" => pc' # "aborted"]_vars
    /\ (pc = "sitemap") ~> (pc = "crawl")

\* both sitemaps of the site have been fetched and a further reference to
\* one of them is at the head of the pending list
C12_Witness ==
    /\ pc = "sitemap"
    /\ \A s \in SitemapUrls : sitemap_gets[s] = 1
    /\ sitemap_urls_to_process # <<>>
    /\ Head(sitemap_urls_to_process) \in processed_sitemaps

\* a record that a sitemap produced (crawl_tool.py 116-124: discovered_from
\* is the sitemap's url); every other record comes from the traversal loop
SitemapSourced(rec) == rec.discovered_from \in SitemapPool

\* C13, first part: when the sitemaps have listed at least max_pages
\* distinct in-domain urls, the sitemap phase ends with max_pages records,
\* all of them from sitemaps (so that the traversal loop is not entered and
\* these records are what crawl_tool returns).
C13_CapFilledFromSitemaps ==
    [][(pc = "sitemap" /\ pc' = "crawl"
        /\ Cardinality(sitemap_listed) >= config.max_pages)
       => /\ Len(records) = config.max_pages
          /\ \A i \in 1..Len(records) : SitemapSourced(records[i])]_vars

\* C13, second part: in the collected records and in the returned list
\* every sitemap record precedes every record of the traversal loop.
C13_SitemapRecordsFirst ==
    \A recs \in {records, result} :
        \A i, j \in 1..Len(recs) :
            (i < j /\ SitemapSourced(recs[j])) => SitemapSourced(recs[i])

\* C13, third part: a url that has a sitemap record has no other record,
\* and the traversal loop and the final dedup leave a sitemap record where
\* it is.
C13_SitemapRecordKept ==
    /\ [](\A i, j \in 1..Len(records) :
            (records[i].url = records[j].url /\ SitemapSourced(records[i]))
                => i = j)
    /\ [][\A i \in 1..Len(records) :
            SitemapSourced(records[i]) =>
                IF pc = "crawl" /\ pc' = "crawled"
                THEN i <= Len(result') /\ result'[i] = records[i]
                ELSE i <= Len(records') /\ records'[i] = records[i]]_vars

\* C13 (as claimed): sitemap discoveries take priority under the cap.
C13_SitemapPriority ==
    /\ C13_CapFilledFromSitemaps
    /\ []C13_SitemapRecordsFirst
    /\ C13_SitemapRecordKept

\* a url with a scheme and a host
IsAbsoluteUrl(url) == urlparse(url).scheme # <<>> /\ urlparse(url).netloc # <<>>

\* C14 (as claimed): normalize_url applied to its own result returns that
\* result, for every url with a scheme and a host, whatever its path and
\* its query are.
C14_NormalizeIdempotent ==
    (pc = "normalized_twice" /\ IsAbsoluteUrl(norm_call.arg))
        => norm_call.ret2 = norm_call.ret

\* C15 (as claimed): two urls that differ only in the letter case of the
\* scheme or of the host, or only in the order of the query parameters,
\* have the same normalized form.
C15_NormalizeCanonical ==
    (pc = "normalized" /\ IsAbsoluteUrl(norm_call.arg))
        => norm_call.ret = norm_call.alt_ret

\* after a fetch that did not deliver an error-free 200, _process_url has
\* returned no result, has stored nothing and has run no stage of
\* _process_url_with_html; a stage has run only after an error-free 200
C16_NothingDoneAfterFetchFailure ==
    last.via = "sweep" =>
        /\ last.fetch \in FetchFailures =>
              /\ last.result = NoUrl
              /\ ~last.appended
              /\ ~last.raised
              /\ last.outcome = None
        /\ last.outcome # None => last.fetch = "ok"

\* C16 (as claimed): a 404, 410 or 403 ends the url as SKIPPED, any other
\* non-200 status or a transport error ends it as FAILED; either way no
\* result is returned, nothing is stored and no further stage runs.
C16_FetchFailureEndsUrl ==
    /\ C16_NothingDoneAfterFetchFailure
    /\ (last.via = "sweep" /\ last.fetch = "absent") => last.state = "SKIPPED"
    /\ (last.via = "sweep" /\ last.fetch \in {"bad_status", "transport_error"})
          => last.state = "FAILED"

\* C17 (as claimed): when the fetch ends with a transport error or with a
\* status other than 200, 404, 410 and 403, fetch_tool has been called more
\* than once and at most stop_after_attempt times for the url.
C17_FetchRetried ==
    (last.via = "sweep" /\ last.fetch \in {"bad_status", "transport_error"})
        => (last.fetches > 1 /\ last.fetches <= stop_after_attempt)

\* C18: when run() returns, every record crawl_tool returned was either
\* processed successfully by the crawl-time callback (it is in
\* processed_urls) or fetched and processed by the leftover sweep.
C18_EveryRecordProcessed ==
    pc = "done" =>
        \A i \in 1..Len(result) :
            result[i].url \in processed_urls \/ result[i].url \in swept

\* run() has returned; one record was stored by the callback, another one,
\* whose callback had failed, went through the sweep
C18_Witness ==
    /\ pc = "done"
    /\ \E i, j \in 1..Len(result) :
          /\ result[i].url \in processed_urls
          /\ result[j].url \in swept \ processed_urls
          /\ attempts[result[j].url] >= 2

\* C19 (as claimed): validate_tool reports a label error, and does not
\* return ok, exactly when some element of labels, at whatever position, is
\* not in the taxonomy.
C19_EveryLabelChecked ==
    pc = "validated" =>
        LET foreign == \E i \in 1..Len(validation.result.labels) :
                           validation.result.labels[i] \notin ALLOWED_LABELS
        IN /\ foreign <=> "Invalid label" \in Range(validation.errors)
           /\ foreign => ~validation.valid

\* C20 (as claimed): validate_tool does not return ok for labels that hold
\* OTHER together with another label.
C20_OtherIsExclusive ==
    (pc = "validated"
     /\ "OTHER" \in Range(validation.result.labels)
     /\ Range(validation.result.labels) # {"OTHER"})
        => ~validation.valid

\* C21: apply_validation_fixes returns, for every classification, a
\* classification whose needs_review is true whenever it was true before and
\* whose labels, confidence, matched_rules, rationale and evidence are those
\* of its argument; the argument is what it was.
C21_FixesOnlyRaiseReview ==
    [][(pc = "validate" /\ pc' = "corrected") =>
        LET r == validation.result
            c == validation'.classification
        IN /\ r.needs_review => c.needs_review
           /\ c.labels = r.labels
           /\ c.confidence = r.confidence
           /\ c.matched_rules = r.matched_rules
           /\ c.rationale = r.rationale
           /\ c.evidence = r.evidence
           /\ validation'.result = r]_vars

\* the fix was applied to a classification that asked for review although
\* neither rule requires it, and that carries a rationale and evidence
C21_Witness ==
    /\ pc = "corrected"
    /\ validation.result.needs_review
    /\ validation.result.confidence >= 5
    /\ validation.result.matched_rules # <<>>
    /\ validation.result.rationale # ""
    /\ validation.result.evidence # <<>>
    /\ validation.classification.needs_review

\* the answers the claim counts as failures
C22_FailedAnswer ==
    \/ validation.answer.kind \in {"no_key", "api_error", "empty", "not_json",
                                   "not_object"}
    \/ /\ validation.answer.kind = "object"
       /\ \/ validation.answer.confidence.kind = "non_numeric"
          \/ validation.answer.labels.kind = "not_iterable"

\* C22 (as claimed): classify_llm_tool raises nothing, and on every failure
\* it returns labels [OTHER], confidence 0 and needs_review true.
C22_ClassifyDegrades ==
    /\ pc # "raised"
    /\ (pc = "validate" /\ C22_FailedAnswer) =>
          /\ validation.result.labels = <<"OTHER">>
          /\ validation.result.confidence = 0
          /\ validation.result.needs_review

\* a labels list of the taxonomy: not empty, every label allowed, OTHER alone
C23_WellFormed(labels) ==
    /\ labels # <<>>
    /\ Range(labels) \subseteq ALLOWED_LABELS
    /\ "OTHER" \in Range(labels) => labels = <<"OTHER">>

\* C23: every ClassificationResult that classify_llm_tool returns, and the
\* StoredClassification built from it, has a non-empty labels list of the
\* taxonomy in which OTHER stands alone: an answer with OTHER among its
\* labels, or with no valid label, gives [OTHER], and otherwise the labels
\* are the valid ones of the answer.
C23_LabelsCoerced ==
    (pc \in {"validate", "validated", "fixed", "stored", "store_failed"}
       /\ validation.answer.kind # "none") =>
        LET r == validation.result
            given == {upper_strip(l) : l \in Range(validation.answer.labels.value) \ {""}}
                         \cap ALLOWED_LABELS
        IN /\ C23_WellFormed(r.labels)
           /\ C23_WellFormed(validation.classification.labels)
           /\ (validation.answer.kind = "object"
                 /\ validation.answer.labels.kind \in {"string", "list"}) =>
                    Range(r.labels) = IF given = {} \/ "OTHER" \in given
                                      THEN {"OTHER"} ELSE given
           /\ pc \in {"stored", "store_failed"} =>
                 validation.appended.labels = r.labels

C23_Witness ==
    /\ pc = "stored"
    /\ validation.answer.kind = "object"
    /\ validation.answer.labels.value = <<"OTHER", "PROFESSIONAL">>
    /\ validation.appended.labels = <<"OTHER">>

\* C29: a classification that reaches validation is never dropped: whatever
\* validate_tool reports, the storage tool is eventually called, and for a
\* classification that is not valid it is called with the corrected one.
C29_ValidationNeverDrops ==
    /\ (pc = "validate") ~> (pc \in {"stored", "store_failed"})
    /\ [](pc \in {"stored", "store_failed"} =>
            validation.appended =
                IF validation.valid THEN validation.result
                ELSE apply_validation_fixes(validation.result))

C29_Witness ==
    /\ pc = "stored"
    /\ ~validation.valid
    /\ validation.errors # <<>>
    /\ ~validation.result.needs_review
    /\ validation.appended.needs_review

\* C30: every StoredClassification handed to the storage tool has
\* needs_review true when its confidence is below 0.5, and when its labels
\* differ from [OTHER] while matched_rules is empty.
C30_StoredObeysReviewRules ==
    pc \in {"stored", "store_failed"} =>
        LET st == validation.appended IN
        /\ st.confidence < 5 => st.needs_review
        /\ (st.labels # <<"OTHER">> /\ st.matched_rules = <<>>) => st.needs_review

\* the model said needs_review false with high confidence and no rule
C30_Witness ==
    /\ pc = "stored"
    /\ validation.answer.kind = "object"
    /\ ~validation.answer.needs_review
    /\ validation.appended.labels = <<"PROFESSIONAL", "ISSUER_ADVANCED">>
    /\ validation.appended.confidence = 10
    /\ validation.appended.matched_rules = <<>>
    /\ validation.appended.needs_review

\* C24: init_storage leaves the Store empty whatever it held, and run()
\* calls it before the first append: from then on the Store holds only
\* records of this run.
C24_StoreResetAtStart ==
    /\ [][pc = "store_init" => (disk'.file = <<>> /\ ~disk'.torn)]_vars
    /\ [](pc \in {"store", "crashed"} =>
            \A i \in 1..Len(disk.file) : disk.file[i].gen >= 1)

C24_Witness ==
    /\ pc = "store"
    /\ disk.format = "sqlite"
    /\ Len(disk.prior) = MaxPrior
    /\ Len(disk.file) = 1
    /\ disk.file[1].gen = 1

\* the last record of the sequence with url u
C25_Latest(recs, u) ==
    LET idx == {i \in 1..Len(recs) : recs[i].url = u}
    IN recs[CHOOSE i \in idx : \A j \in idx : j <= i]

\* C25: after any sequence of appends that returned, the SQLite table has
\* exactly one row for every appended url, holding the record appended last
\* for it, and no other row; the line-delimited file holds every appended
\* record, in append order.
C25_LastWriteWins ==
    (pc = "store" /\ disk.faults = 0) =>
        /\ disk.format = "sqlite" =>
             /\ \A u \in StoreUrls :
                  LET rows == SelectSeq(disk.file, LAMBDA r : r.url = u)
                  IN IF \E i \in 1..Len(disk.acked) : disk.acked[i].url = u
                     THEN rows = <<C25_Latest(disk.acked, u)>>
                     ELSE rows = <<>>
        /\ disk.format = "jsonl" => disk.file = disk.acked

C25_Witness ==
    /\ pc = "store"
    /\ disk.faults = 0
    /\ disk.format = "sqlite"
    /\ Len(disk.acked) = 3
    /\ disk.acked[1].url = "u1"
    /\ disk.acked[2].url = "u2"
    /\ disk.acked[3].url = "u1"
    /\ Len(disk.file) = 2

\* C26 (as claimed): for the line-delimited file and for every other export
\* format of storage_tool, a record for which storage_tool has returned is in
\* the Store and stays there, whatever happens to later appends.
C26_AppendsAreDurable ==
    (pc \in {"store", "crashed"} /\ disk.format \in {"jsonl", "json"}) =>
        \A i \in 1..Len(disk.acked) : disk.acked[i] \in Range(disk.file)

\* C27: the Renderer is invoked exactly when force_render is set, or the
\* fetched HTML is shorter than min_text_chars, or a configured SPA marker
\* occurs in it; when it is not invoked, fetch_mode stays http.
C27_RenderIffPolicy ==
    pc \in {"extract", "build", "raised", "stored", "store_failed"} =>
        LET h == page.fetched.html
            marker_found ==
                \E k \in 1..Len(page.policy.spa_markers) :
                    LET m == page.policy.spa_markers[k]
                    IN \E pre, post \in Htmls : h = pre \o m \o post
        IN /\ page.invoked <=> \/ page.policy.force_render
                               \/ Len(h) < page.policy.min_text_chars
                               \/ marker_found
           /\ ~page.invoked =>
                 /\ page.fetch_mode = "http"
                 /\ page.html = h
                 /\ page.final_url = page.fetched.final_url

\* rendered only because a marker lies inside a page that is long enough
C27_Witness ==
    /\ pc = "extract"
    /\ page.invoked
    /\ ~page.policy.force_render
    /\ page.policy.min_text_chars = 2
    /\ page.policy.spa_markers = <<<<"N", "R">>>>
    /\ page.fetched.html = <<"x", "N", "R">>

\* what the stages after the render step are to work with
C28_Expected ==
    LET rr == page.render_result
    IN IF page.invoked /\ rr.error = "none" /\ rr.html # <<>>
       THEN [html |-> rr.html, final_url |-> rr.final_url, fetch_mode |-> "render"]
       ELSE [html |-> page.fetched.html, final_url |-> page.fetched.final_url,
             fetch_mode |-> "http"]

\* C28: a render that returns no error and html that is not empty replaces
\* html and final_url, and the stored record has fetch_mode render; after any
\* other render the later stages get the fetched html and final_url and the
\* stored record has fetch_mode http.  A stored record has fetch_mode render
\* exactly when a render returned no error and html that is not empty.
C28_RenderOutcome ==
    /\ [](pc \in {"build", "raised", "stored", "store_failed"} =>
            page.extracted = C28_Expected)
    /\ [](pc \in {"stored", "store_failed"} =>
            /\ page.stored.fetch_mode = C28_Expected.fetch_mode
            /\ page.stored.final_url = C28_Expected.final_url)
    /\ [][(pc = "fetched" /\ page'.invoked /\ page'.render_result.error # "none")
             => pc' = "extract"]_vars

C28_Witness ==
    /\ pc = "stored"
    /\ page.invoked
    /\ page.render_result.error = "none"
    /\ page.render_result.html = <<"r">>
    /\ page.render_result.final_url = "redirected"
    /\ page.stored = [final_url |-> "redirected", fetch_mode |-> "render"]

\* the place of a stage in the order of the pipeline
C31_Rank(stage) ==
    CASE stage \in {"fetch", "given"} -> 1
      [] stage = "render" -> 2
      [] stage = "extract" -> 3
      [] stage = "classify" -> 4
      [] stage = "validate" -> 5
      [] stage = "store" -> 6

\* C31: in one pass the stages are entered in the order fetch (or the page
\* given by the traversal), render, extract, classify, validate, store,
\* each at most once and none after a later one; the pass begins with the
\* page, extract, classify and validate are never left out before a later
\* stage, and the storage tool is called only after validation.
C31_SinglePassInOrder ==
    /\ [](\A i, j \in 1..Len(page.trace) :
            i < j => C31_Rank(page.trace[i]) < C31_Rank(page.trace[j]))
    /\ [](\A i \in 1..Len(page.trace) :
            /\ C31_Rank(page.trace[i]) >= 2 => C31_Rank(page.trace[1]) = 1
            /\ C31_Rank(page.trace[i]) >= 4 =>
                  \E j \in 1..(i - 1) :
                      C31_Rank(page.trace[j]) = C31_Rank(page.trace[i]) - 1)
    /\ []("store" \in Range(page.trace) => "validate" \in Range(page.trace))
    /\ [][IsPrefix(page.trace, page'.trace)]_vars

C31_Witness ==
    /\ pc = "returned"
    /\ page.trace = <<"fetch", "render", "extract", "classify", "validate", "store">>

\* C32 (as claimed): the leftover sweep, which fetches for itself, is never
\* entered for a url whose page the traversal has retrieved as a 200 HTML
\* page and handed to the callback.
C32_NoFetchOfRetrievedPage ==
    (last.via = "sweep" /\ last.fetched # NoUrl) => attempts[last.url] = 1

\* C33: a traversal fetch that raises or returns a non-200 status hands
\* nothing to the callback and queues nothing, and the loop goes on with
\* the rest of the batch; a sitemap fetch that fails, or is no 200 XML
\* document, adds no record and no sitemap and the loop goes on; the
\* sitemap phase leaves the queue of seeds as it was, and without any
\* in-domain sitemap entry the traversal starts from the seeds with no
\* record; crawl_tool is never left by an exception.
C33_DiscoveryFailuresIsolated ==
    /\ [][(pc = "batch" /\ last'.got \in {"raise", "bad_status"}) =>
            /\ pc' = "batch"
            /\ queue' = queue
            /\ batch' = Tail(batch)
            /\ ~last'.expanded
            /\ last'.url = NoUrl
            /\ stored' = stored]_vars
    /\ [][(pc = "sitemap" /\ last'.got \in {"raise", "fail"}) =>
            /\ pc' = "sitemap"
            /\ records' = records
            /\ seen' = seen
            /\ sitemap_urls_to_process' = Tail(sitemap_urls_to_process)]_vars
    /\ [][(pc = "sitemap" /\ pc' = "crawl") =>
            /\ queue' = seed_queue(config.start_urls, {}, <<>>).queue
            /\ sitemap_listed = {} =>
                  /\ records' = <<>>
                  /\ seen' = seed_queue(config.start_urls, {}, <<>>).seen]_vars
    /\ [](pc # "aborted")

\* the fetch of a queued url has just raised and the batch has more entries
C33_Witness ==
    /\ pc = "batch"
    /\ last.got = "raise"
    /\ batch # <<>>
    /\ records # <<>>

\* C34: once records holds max_pages entries, crawl_tool sends no GET for a
\* sitemap or for a queued url and takes nothing from the queue or from the
\* pending sitemaps: no batch entry is left at that moment, and the urls
\* that are still queued without a record are not in the returned list.
C34_StopsAtCap ==
    /\ []((pc = "batch" /\ Len(records) >= config.max_pages) => batch = <<>>)
    /\ [][(pc \in {"sitemap", "crawl", "batch"} /\ Len(records) >= config.max_pages) =>
            /\ last'.fetched = NoUrl
            /\ sitemap_gets' = sitemap_gets \/ pc' = "crawled"
            /\ batch' = batch
            /\ records' = records \/ pc' = "crawled"
            /\ queue' = queue \/ pc' = "crawled"
            /\ sitemap_urls_to_process' = sitemap_urls_to_process \/ pc' = "crawled"]_vars
    /\ [][(pc = "crawl" /\ pc' = "crawled") =>
            \A i \in 1..Len(queue) :
                (\A j \in 1..Len(records) : records[j].url # queue[i][1]) =>
                    \A k \in 1..Len(result') : result'[k].url # queue[i][1]]_vars

\* the sitemaps have filled the cap while a sitemap is pending and the seeds
\* are queued
C34_Witness ==
    /\ pc = "sitemap"
    /\ Len(records) = config.max_pages
    /\ sitemap_urls_to_process # <<>>
    /\ Head(sitemap_urls_to_process) \notin processed_sitemaps
    /\ queue # <<>>

C36_StoredWithinMaxPages ==
    /\ Len(stored) <= config.max_pages
    /\ (pc = "done" => Len(returned) <= config.max_pages)

\* C37: every seed URL whose host is in the allowed domain set is in the list
\* crawl_tool returns, as a record of depth 0, whenever the max_pages cap was
\* not reached before the seed was visited (the returned list is shorter than
\* the cap, so the cap was reached at no time).
C37_SeedsAreDepthZeroRecords ==
    (pc = "crawled" /\ Len(result) < config.max_pages) =>
        \A i \in 1..Len(config.start_urls) :
            LET norm == normalize_url(config.start_urls[i]) IN
            netloc(norm) \in allowed =>
                \E j \in 1..Len(result) :
                    result[j].url = norm /\ result[j].depth = 0

\* C38: during link traversal each normalized url is fetched at most once and
\* handed to the processing callback at most once, even when several links
\* lead to it: no GET of the traversal is for a url that the callback has
\* already worked on in this traversal, and the callback works on no url twice
\* before crawl_tool returns.
C38_TraversalVisitsOnce ==
    /\ [][(pc = "batch" /\ last'.fetched # NoUrl)
            => attempts[last'.fetched] = 0]_vars
    /\ [](pc \in {"batch", "crawl"} => \A u \in NormUrls : attempts[u] <= 1)

\* run() is sequential code and every call it makes returns or fails: a
\* step that can be taken is taken
FairRunSpec == Spec /\ WF_vars(Next)

\* C39: run() terminates, whatever the site (sitemaps, pages, links, link
\* cycles, pages that fail to fetch) and whatever max_depth and max_pages:
\* the traversal ends with the queue empty or the cap reached, the leftover
\* sweep takes each remaining record once, and run() returns.
C39_RunTerminates ==
    /\ <>(pc = "done")
    /\ [][(pc = "crawl" /\ pc' = "crawled")
            => (queue = <<>> \/ Len(records) >= config.max_pages)]_vars
    /\ [](pc = "sweep" =>
            \A i, j \in 1..Len(unprocessed) :
                unprocessed[i].url = unprocessed[j].url => i = j)
    /\ [][(pc = "sweep" /\ pc' = "sweep") => unprocessed' = Tail(unprocessed)]_vars

\* run() has returned after a traversal that filled the page cap and a sweep
\* that took a leftover record
C39_Witness ==
    /\ pc = "done"
    /\ Len(result) = config.max_pages
    /\ swept # {}
    /\ returned # <<>>

====
